---------------------------- MODULE Spec2Model ----------------------------
(***************************************************************************)
(* Voice-synthesis pipeline of the text-to-voice page.                     *)
(*                                                                         *)
(*   src/src/app/page.tsx                HomePage, generateVoice           *)
(*   src/src/components/VoiceSelector.tsx VoiceSelector, previewVoice      *)
(*                                                                         *)
(* The page is a React component: the handlers it hands to the DOM are     *)
(* closures over the state of the last render, every `await` is a          *)
(* suspension point at which other handlers run, and a state setter takes  *)
(* effect on the component state at once while the closures see it only    *)
(* after the next render.  One action of the model is one handler or one   *)
(* continuation of an async function, run to its next `await`.             *)
(***************************************************************************)
EXTENDS Integers, Sequences, FiniteSets, Bags

(***************************************************************************)
(* Strings.  JavaScript strings are modelled by TLA+ strings, taken apart  *)
(* with Len and SubSeq.                                                    *)
(***************************************************************************)
CharAt(s, i) == SubSeq(s, i, i)

\* String.prototype.startsWith
StartsWith(s, p) == Len(s) >= Len(p) /\ SubSeq(s, 1, Len(p)) = p

\* String.prototype.includes
Includes(s, sub) ==
    \E i \in 1..(Len(s) + 1) :
        i + Len(sub) - 1 <= Len(s) /\ SubSeq(s, i, i + Len(sub) - 1) = sub

IsSpace(c) == c = " "

RECURSIVE TrimStart(_)
TrimStart(s) ==
    IF Len(s) > 0 /\ IsSpace(CharAt(s, 1)) THEN TrimStart(SubSeq(s, 2, Len(s))) ELSE s

RECURSIVE TrimEnd(_)
TrimEnd(s) ==
    IF Len(s) > 0 /\ IsSpace(CharAt(s, Len(s))) THEN TrimEnd(SubSeq(s, 1, Len(s) - 1)) ELSE s

\* String.prototype.trim
Trim(s) == TrimEnd(TrimStart(s))

\* Position of the first occurrence of the one-character string c in s at or
\* after position from; Len(s) + 1 when there is none.
RECURSIVE IndexFrom(_, _, _)
IndexFrom(s, c, from) ==
    IF from > Len(s) THEN Len(s) + 1
    ELSE IF CharAt(s, from) = c THEN from
    ELSE IndexFrom(s, c, from + 1)

\* message.split(",")[1]: the segment between the first and the second
\* comma; `undefined` when the string holds no comma.
SplitSecond(s) ==
    LET first == IndexFrom(s, ",", 1)
        second == IndexFrom(s, ",", first + 1)
    IN  IF first > Len(s)
        THEN [defined |-> FALSE, value |-> ""]
        ELSE [defined |-> TRUE, value |-> SubSeq(s, first + 1, second - 1)]

(***************************************************************************)
(* atob: the forgiving base64 decoder of the browser.                      *)
(***************************************************************************)
B64Chars == "ABCDEFGHIJKLMNOPQRSTUVWXYZabcdefghijklmnopqrstuvwxyz0123456789+/"

IsB64Char(c) == \E i \in 1..Len(B64Chars) : CharAt(B64Chars, i) = c

B64Value(c) == (CHOOSE i \in 1..Len(B64Chars) : CharAt(B64Chars, i) = c) - 1

\* Padding is dropped only from a string whose length is a multiple of four.
StripPadding(s) ==
    IF Len(s) % 4 = 0 /\ Len(s) >= 2 /\ SubSeq(s, Len(s) - 1, Len(s)) = "=="
    THEN SubSeq(s, 1, Len(s) - 2)
    ELSE IF Len(s) % 4 = 0 /\ Len(s) >= 1 /\ CharAt(s, Len(s)) = "="
    THEN SubSeq(s, 1, Len(s) - 1)
    ELSE s

RECURSIVE B64Bytes(_)
B64Bytes(s) ==
    LET v(i) == B64Value(CharAt(s, i))
        b1 == v(1) * 4 + v(2) \div 16
        b2 == (v(2) % 16) * 16 + v(3) \div 4
        b3 == (v(3) % 4) * 64 + v(4)
    IN  IF Len(s) >= 4 THEN <<b1, b2, b3>> \o B64Bytes(SubSeq(s, 5, Len(s)))
        ELSE IF Len(s) = 3 THEN <<b1, b2>>
        ELSE IF Len(s) = 2 THEN <<b1>>
        ELSE <<>>

\* atob(s): the decoded bytes, or a thrown InvalidCharacterError.
Atob(s) ==
    LET d == StripPadding(s)
    IN  IF Len(d) % 4 = 1 \/ \E i \in 1..Len(d) : ~IsB64Char(CharAt(d, i))
        THEN [threw |-> TRUE, bytes |-> <<>>]
        ELSE [threw |-> FALSE, bytes |-> B64Bytes(d)]


(***************************************************************************)
(* The response decoder of generateVoice, one operator per suspension      *)
(* point.  An outcome either throws (the generation is abandoned), is the  *)
(* decoded payload, or asks for a second fetch.                            *)
(***************************************************************************)
Throws(msg) == [kind |-> "throw", error |-> msg, bytes |-> <<>>, url |-> ""]
Payload(b) == [kind |-> "blob", error |-> "", bytes |-> b, url |-> ""]
FetchOf(u) == [kind |-> "fetch", error |-> "", bytes |-> <<>>, url |-> u]

\* response.headers.get("content-type") is null when the header is absent.
NoContentType == [present |-> FALSE, value |-> ""]
ContentType(v) == [present |-> TRUE, value |-> v]

\* The if / else-if / else over contentType?.includes(...).
ContentTypeArm(ct) ==
    IF ct.present /\ Includes(ct.value, "application/json") THEN "json"
    ELSE IF ct.present /\ Includes(ct.value, "audio") THEN "audio"
    ELSE "other"

\* jsonResponse.choices && jsonResponse.choices[0] && jsonResponse.choices[0].message
HasMessage(j) == j.hasChoices /\ Len(j.choices) >= 1 /\ j.choices[1].hasMessage

\* The JSON arm, after `await response.json()` has resolved with j.
MessageStep(j) ==
    IF ~HasMessage(j) THEN Throws("No audio data in response")
    ELSE LET isString == j.choices[1].isString
             message == j.choices[1].content
         IN  IF isString /\ StartsWith(message, "data:audio")
             THEN LET base64Data == SplitSecond(message)
                      binaryString == Atob(IF base64Data.defined
                                           THEN base64Data.value ELSE "undefined")
                  IN  IF binaryString.threw THEN Throws("InvalidCharacterError")
                      ELSE Payload(binaryString.bytes)
             ELSE IF isString /\ (StartsWith(message, "http") \/ StartsWith(message, "https"))
             THEN FetchOf(message)
             ELSE Throws("Unexpected response format from voice API")

\* After `await fetch(message)` has resolved: audioResponse.ok decides.
AudioFetchStep(ok) ==
    IF ok THEN "blob" ELSE "throw"

\* After `await response.blob()` (or audioResponse.blob()) has resolved with
\* body, in the arm that asked for it.  Only the fallback arm looks at the size.
BlobStepNoSizeCheck(arm, body) == Payload(body)

BlobStep(arm, body) ==
    IF arm = "other" /\ Len(body) = 0 THEN Throws("Empty response from voice API")
    ELSE Payload(body)

(***************************************************************************)
(* Inputs of the environment.                                              *)
(***************************************************************************)
Texts == {"", " ", "hi"}

ContentTypes ==
    {NoContentType, ContentType("application/json"), ContentType("audio/mpeg"),
     ContentType("text/plain")}

Message(c) == [hasMessage |-> TRUE, isString |-> TRUE, content |-> c]
NonStringMessage == [hasMessage |-> TRUE, isString |-> FALSE, content |-> ""]
NoMessage == [hasMessage |-> FALSE, isString |-> FALSE, content |-> ""]
Envelope(m) == [hasChoices |-> TRUE, choices |-> <<m>>]

Contents ==
    {"data:audio/mpeg;base64,AAAA", "data:audio/mpeg;base64,TWE=", "data:audio",
     "https://x/y.mp3", "http://x/y.mp3", "hello", ""}

JsonBodies ==
    {Envelope(Message(c)) : c \in Contents}
        \cup {Envelope(NonStringMessage), Envelope(NoMessage),
              [hasChoices |-> TRUE, choices |-> <<>>],
              [hasChoices |-> FALSE, choices |-> <<>>]}

Bodies == {<<>>, <<73>>, <<73, 68>>}

\* What each suspension point of the decoder can resume with, over the inputs
\* above.
ResponseArms == {ContentTypeArm(ct) : ct \in ContentTypes}
JsonOutcomes == {MessageStep(j).kind : j \in JsonBodies}
AudioFetchOutcomes == {AudioFetchStep(ok) : ok \in BOOLEAN}
BlobArms == {"url", "audio", "other"}
BlobOutcomes == [arm \in BlobArms |-> {BlobStep(arm, body).kind : body \in Bodies}]

(***************************************************************************)
(* Program constants.                                                      *)
(***************************************************************************)
ProgressHold == 90
IncrementScale == 15
ProgressDone == 100
HistoryKeep == 9

(***************************************************************************)
(* Bounds of the model.                                                    *)
(***************************************************************************)
\* generateVoice invocations suspended at the same time
MaxInFlight == 2
\* intervals left running by invocations whose provider fetch rejected
MaxLeaked == 1
\* GeneratedAudio objects created in one run
MaxGenerations == 2
\* previewVoice invocations suspended, and preview audio playing, at the same time
MaxPreviews == 2

\* Math.random() * 15 lies in [0, 15): its least, a middle and its greatest
\* whole value.
Increments == {0, IncrementScale \div 2, IncrementScale - 1}

(***************************************************************************)
(* State of HomePage.                                                      *)
(***************************************************************************)
VARIABLES
    text,                \* useState("")
    isGenerating,        \* useState(false)
    generationProgress,  \* useState(0)
    currentAudio,        \* useState<GeneratedAudio | null>(null)
    audioHistory,        \* useState<GeneratedAudio[]>([])
    rendered,            \* the state the last render closed generateVoice over
    suspended,           \* bag of stages: the awaits generateVoice invocations are suspended at
    leakedIntervals,     \* progress intervals whose invocation ended without clearInterval
    created,             \* GeneratedAudio objects constructed so far
    objectUrls           \* committed object URLs not revoked

pageVars ==
    <<text, isGenerating, generationProgress, currentAudio, audioHistory, rendered,
      suspended, leakedIntervals, created, objectUrls>>

(***************************************************************************)
(* State of VoiceSelector.                                                 *)
(***************************************************************************)
VARIABLES
    voice,               \* voiceSettings.voice of HomePage, the `value` prop
    previewingVoice,     \* useState<string | null>(null)
    renderedSelector,    \* the props and state the last render of the selector used
    previews,            \* bag of <<stage, voiceId>>: the awaits previewVoice invocations are suspended at
    playing              \* bag of voiceIds: preview audio elements playing

selectorVars == <<voice, previewingVoice, renderedSelector, previews, playing>>

(***************************************************************************)
(* One run of the response decoder on a given provider response.           *)
(***************************************************************************)
VARIABLES
    decoding             \* the response, the await the decoder is at, its outcome

decoderVars == <<decoding>>

vars == <<pageVars, selectorVars, decoderVars>>

\* A GeneratedAudio is modelled by its identity: the k-th object constructed,
\* holding the object URL created for it.  The null of currentAudio is NoAudio.
NoAudio == [id |-> 0, audioUrl |-> 0]
GeneratedAudio(k) == [id |-> k, audioUrl |-> k]

\* The awaits of generateVoice, in source order.
Stages == {"fetch", "json", "audioFetch", "blobUrl", "blobAudio", "blobOther", "metadata"}

\* generateVoice invocations suspended at stage
At(stage) == CopiesIn(stage, suspended)

\* generateVoice invocations that have started and not yet exited
InFlight == BagCardinality(suspended)

\* setInterval timers still running: one per invocation awaiting the provider
\* fetch, plus the leaked ones
ActiveIntervals == At("fetch") + leakedIntervals

Min(a, b) == IF a < b THEN a ELSE b

\* Array.prototype.slice(from, to), zero-based, to exclusive
Slice(s, from, to) == SubSeq(s, from + 1, Min(to, Len(s)))

Enter(stage) == suspended (+) SetToBag({stage})
Move(from, to) == (suspended (-) SetToBag({from})) (+) SetToBag({to})
Leave(stage) == suspended (-) SetToBag({stage})

PageInit ==
    /\ text = ""
    /\ isGenerating = FALSE
    /\ generationProgress = 0
    /\ currentAudio = NoAudio
    /\ audioHistory = <<>>
    /\ rendered = [text |-> "", isGenerating |-> FALSE]
    /\ suspended = EmptyBag
    /\ leakedIntervals = 0
    /\ created = 0
    /\ objectUrls = {}

(***************************************************************************)
(* Rendering and the handlers of the page.                                 *)
(***************************************************************************)
\* React re-renders HomePage: useCallback's dependencies changed, so the
\* button gets a generateVoice closed over the current state.
Render ==
    /\ rendered # [text |-> text, isGenerating |-> isGenerating]
    /\ rendered' = [text |-> text, isGenerating |-> isGenerating]
    /\ UNCHANGED <<text, isGenerating, generationProgress, currentAudio, audioHistory,
                   suspended, leakedIntervals, created, objectUrls>>
    /\ UNCHANGED <<selectorVars, decoderVars>>

\* <TextInput onChange={setText}>
SetText ==
    \E t \in Texts :
        /\ t # text
        /\ text' = t
        /\ UNCHANGED <<isGenerating, generationProgress, currentAudio, audioHistory,
                       rendered, suspended, leakedIntervals, created, objectUrls>>
    /\ UNCHANGED <<selectorVars, decoderVars>>

\* The guard of generateVoice, over the values its closure holds.
GuardPasses == ~(Trim(rendered.text) = "" \/ rendered.isGenerating)

\* generateVoice up to `await fetch(...)`: the guard, the two setters, the
\* interval and the provider call.
GenerateVoice ==
    /\ GuardPasses
    /\ InFlight < MaxInFlight
    /\ isGenerating' = TRUE
    /\ generationProgress' = 0
    /\ suspended' = Enter("fetch")
    /\ UNCHANGED <<text, currentAudio, audioHistory, rendered, leakedIntervals,
                   created, objectUrls>>
    /\ UNCHANGED <<selectorVars, decoderVars>>

\* The updater of the progress interval.
NextProgress(prev, d) ==
    IF prev >= ProgressHold THEN prev ELSE prev + d

\* One firing of a progress interval.
Tick ==
    /\ ActiveIntervals > 0
    /\ \E d \in Increments : generationProgress' = NextProgress(generationProgress, d)
    /\ UNCHANGED <<text, isGenerating, currentAudio, audioHistory, rendered, suspended,
                   leakedIntervals, created, objectUrls>>
    /\ UNCHANGED <<selectorVars, decoderVars>>

\* The finally block.
FinallyKeepsProgress ==
    /\ isGenerating' = FALSE
    /\ UNCHANGED generationProgress

Finally ==
    /\ isGenerating' = FALSE
    /\ generationProgress' = 0

\* catch (console.error, alert) and finally: nothing is committed.
CatchClearsCurrent ==
    /\ Finally
    /\ currentAudio' = NoAudio
    /\ UNCHANGED <<audioHistory, created, objectUrls>>

Catch ==
    /\ Finally
    /\ UNCHANGED <<currentAudio, audioHistory, created, objectUrls>>

\* `await fetch(...)` rejects: control leaves the try block before
\* clearInterval, so the interval of this invocation keeps running.
FetchRejected ==
    /\ At("fetch") > 0
    /\ leakedIntervals < MaxLeaked
    /\ suspended' = Leave("fetch")
    /\ leakedIntervals' = leakedIntervals + 1
    /\ Catch
    /\ UNCHANGED <<text, rendered>>
    /\ UNCHANGED <<selectorVars, decoderVars>>

\* `await fetch(...)` resolves: clearInterval, setGenerationProgress(100), the
\* status check and the dispatch on the content type, up to the next await.
FetchResolved ==
    /\ At("fetch") > 0
    /\ \/ /\ suspended' = Leave("fetch")      \* !response.ok
          /\ Catch
       \/ \E arm \in ResponseArms :
            /\ generationProgress' = ProgressDone
            /\ suspended' = Move("fetch",
                                 CASE arm = "json" -> "json"
                                   [] arm = "audio" -> "blobAudio"
                                   [] OTHER -> "blobOther")
            /\ UNCHANGED <<isGenerating, currentAudio, audioHistory, created, objectUrls>>
    /\ UNCHANGED <<text, rendered, leakedIntervals>>
    /\ UNCHANGED <<selectorVars, decoderVars>>

\* URL.createObjectURL(audioBlob), new Audio(audioUrl) and the await of
\* loadedmetadata: the invocation now holds an object URL of its own.
AwaitMetadata(from) ==
    /\ suspended' = Move(from, "metadata")
    /\ UNCHANGED <<isGenerating, generationProgress, currentAudio, audioHistory,
                   created, objectUrls>>

\* `await response.json()` settles.
JsonSettled ==
    /\ At("json") > 0
    /\ \/ /\ suspended' = Leave("json")       \* the body is not JSON
          /\ Catch
       \/ \E kind \in JsonOutcomes :
            CASE kind = "throw" -> suspended' = Leave("json") /\ Catch
              [] kind = "blob" -> AwaitMetadata("json")
              [] kind = "fetch" ->
                    /\ suspended' = Move("json", "audioFetch")
                    /\ UNCHANGED <<isGenerating, generationProgress, currentAudio,
                                   audioHistory, created, objectUrls>>
    /\ UNCHANGED <<text, rendered, leakedIntervals>>
    /\ UNCHANGED <<selectorVars, decoderVars>>

\* `await fetch(message)` settles.
AudioFetchSettled ==
    /\ At("audioFetch") > 0
    /\ \/ /\ suspended' = Leave("audioFetch")  \* the fetch rejects
          /\ Catch
       \/ \E next \in AudioFetchOutcomes :
            IF next = "blob"
            THEN /\ suspended' = Move("audioFetch", "blobUrl")
                 /\ UNCHANGED <<isGenerating, generationProgress, currentAudio,
                                audioHistory, created, objectUrls>>
            ELSE /\ suspended' = Leave("audioFetch")
                 /\ Catch
    /\ UNCHANGED <<text, rendered, leakedIntervals>>
    /\ UNCHANGED <<selectorVars, decoderVars>>

\* `await response.blob()` / `await audioResponse.blob()` settles in one of
\* the three arms that read a body.
BlobSettled ==
    /\ \E arm \in BlobArms :
        LET stage == CASE arm = "url" -> "blobUrl"
                       [] arm = "audio" -> "blobAudio"
                       [] OTHER -> "blobOther"
        IN  /\ At(stage) > 0
            /\ \/ /\ suspended' = Leave(stage)   \* reading the body rejects
                  /\ Catch
               \/ \E kind \in BlobOutcomes[arm] :
                    IF kind = "throw"
                    THEN suspended' = Leave(stage) /\ Catch
                    ELSE AwaitMetadata(stage)
    /\ UNCHANGED <<text, rendered, leakedIntervals>>
    /\ UNCHANGED <<selectorVars, decoderVars>>

\* prev => [newAudio, ...prev.slice(0, 9)]
PrependKeepAll(newAudio, prev) == <<newAudio>> \o prev

Prepend(newAudio, prev) == <<newAudio>> \o Slice(prev, 0, HistoryKeep)

\* loadedmetadata fires: the GeneratedAudio is built and committed, then the
\* finally block runs.
MetadataLoadedWithinKeepsCurrent(limit) ==
    /\ At("metadata") > 0
    /\ created < limit
    /\ LET newAudio == GeneratedAudio(created + 1)
       IN  /\ created' = created + 1
           /\ objectUrls' = objectUrls \cup {newAudio.audioUrl}
           /\ currentAudio' = IF currentAudio = NoAudio THEN newAudio ELSE currentAudio
           /\ audioHistory' = <<newAudio>> \o Slice(audioHistory, 0, HistoryKeep)
    /\ suspended' = Leave("metadata")
    /\ isGenerating' = FALSE
    /\ generationProgress' = 0
    /\ UNCHANGED <<text, rendered, leakedIntervals>>
    /\ UNCHANGED <<selectorVars, decoderVars>>

MetadataLoadedWithinAtDone(limit) ==
    /\ At("metadata") > 0
    /\ created < limit
    /\ generationProgress = ProgressDone
    /\ LET newAudio == GeneratedAudio(created + 1)
       IN  /\ created' = created + 1
           /\ objectUrls' = objectUrls \cup {newAudio.audioUrl}
           /\ currentAudio' = newAudio
           /\ audioHistory' = <<newAudio>> \o Slice(audioHistory, 0, HistoryKeep)
    /\ suspended' = Leave("metadata")
    /\ isGenerating' = FALSE
    /\ generationProgress' = 0
    /\ UNCHANGED <<text, rendered, leakedIntervals>>
    /\ UNCHANGED <<selectorVars, decoderVars>>

MetadataLoadedWithin(limit) ==
    /\ At("metadata") > 0
    /\ created < limit
    /\ LET newAudio == GeneratedAudio(created + 1)
       IN  /\ created' = created + 1
           /\ objectUrls' = objectUrls \cup {newAudio.audioUrl}
           /\ currentAudio' = newAudio
           /\ audioHistory' = Prepend(newAudio, audioHistory)
    /\ suspended' = Leave("metadata")
    /\ Finally
    /\ UNCHANGED <<text, rendered, leakedIntervals>>
    /\ UNCHANGED <<selectorVars, decoderVars>>

\* What the history list hands to onSelect: select(id) returns the matching
\* entry of the history store.
SelectableEntries == {audioHistory[i] : i \in 1..Len(audioHistory)}

\* <VoiceHistory history={audioHistory} onSelect={setCurrentAudio}>
SelectHistory ==
    /\ \E entry \in SelectableEntries :
        /\ entry # currentAudio
        /\ currentAudio' = entry
    /\ UNCHANGED <<text, isGenerating, generationProgress, audioHistory, rendered,
                   suspended, leakedIntervals, created, objectUrls>>
    /\ UNCHANGED <<selectorVars, decoderVars>>

MetadataLoaded == MetadataLoadedWithin(MaxGenerations)

\* The audio element cannot read the payload and fires `error` instead of
\* `loadedmetadata`.  The promise generateVoice awaits has no listener for it
\* and no timeout: the invocation stays suspended at that await for good.
MediaError ==
    /\ At("metadata") > 0
    /\ suspended' = Move("metadata", "metadataNever")
    /\ UNCHANGED <<text, isGenerating, generationProgress, currentAudio, audioHistory,
                   rendered, leakedIntervals, created, objectUrls>>
    /\ UNCHANGED <<selectorVars, decoderVars>>

\* generateVoice, started only while every invocation in flight can still
\* commit within MaxGenerations: no invocation waits on the bound.
GenerateVoiceWithinBound ==
    /\ created + InFlight < MaxGenerations
    /\ GenerateVoice

\* Enough generations to fill the history and evict from it twice.
MetadataLoadedDeep == MetadataLoadedWithin(HistoryKeep + 3)

(***************************************************************************)
(* VoiceSelector: selection, rendering and previewVoice.                   *)
(***************************************************************************)
\* The catalogue: the ids of the first three voices.
VoiceIds == {"rachel", "domi", "bella"}

\* The null of previewingVoice.
NoVoice == "null"

\* The awaits of previewVoice, in source order.
PreviewStages == {"fetch", "json", "audioFetch", "blobUrl", "blob", "play"}

\* previewVoice invocations for voice v suspended at stage st
PAt(st, v) == CopiesIn(<<st, v>>, previews)

\* previewVoice invocations for voice v that have started and not yet exited
AllPreviews == BagCardinality(previews)

AllPlaying == BagCardinality(playing)

PEnter(st, v) == previews (+) SetToBag({<<st, v>>})
PMove(from, to, v) == (previews (-) SetToBag({<<from, v>>})) (+) SetToBag({<<to, v>>})
PLeave(st, v) == previews (-) SetToBag({<<st, v>>})

SelectorInit ==
    /\ voice = "rachel"
    /\ previewingVoice = NoVoice
    /\ renderedSelector = [value |-> "rachel", previewingVoice |-> NoVoice]
    /\ previews = EmptyBag
    /\ playing = EmptyBag

\* onValueChange={onChange} of the Select and onClick={() => onChange(voice.id)}
\* of the popular-voice buttons: setVoiceSettings(prev => ({ ...prev, voice })).
SelectVoice ==
    /\ \E v \in VoiceIds :
        /\ v # voice
        /\ voice' = v
    /\ UNCHANGED <<previewingVoice, renderedSelector, previews, playing>>
    /\ UNCHANGED <<pageVars, decoderVars>>

\* React re-renders VoiceSelector with the current value and previewingVoice.
RenderSelector ==
    /\ renderedSelector # [value |-> voice, previewingVoice |-> previewingVoice]
    /\ renderedSelector' = [value |-> voice, previewingVoice |-> previewingVoice]
    /\ UNCHANGED <<voice, previewingVoice, previews, playing>>
    /\ UNCHANGED <<pageVars, decoderVars>>

\* disabled={previewingVoice === selectedVoice.id}, as last rendered
PreviewDisabled == renderedSelector.previewingVoice = renderedSelector.value

\* The Preview button: previewVoice(selectedVoice.id) up to `await fetch(...)`.
PreviewVoice ==
    /\ ~PreviewDisabled
    /\ AllPreviews + AllPlaying < MaxPreviews
    /\ LET voiceId == renderedSelector.value
       IN  /\ previewingVoice' = voiceId
           /\ previews' = PEnter("fetch", voiceId)
    /\ UNCHANGED <<voice, renderedSelector, playing>>
    /\ UNCHANGED <<pageVars, decoderVars>>

\* finally { setPreviewingVoice(null) }: every exit of previewVoice, by
\* return, by the catch block or by falling off the end.
PreviewFinally == previewingVoice' = NoVoice

\* `await fetch(...)` of the preview rejects.
PreviewFetchRejected ==
    /\ \E v \in VoiceIds :
        /\ PAt("fetch", v) > 0
        /\ previews' = PLeave("fetch", v)
    /\ PreviewFinally
    /\ UNCHANGED <<voice, renderedSelector, playing>>
    /\ UNCHANGED <<pageVars, decoderVars>>

\* `await fetch(...)` of the preview resolves.
PreviewFetchResolved ==
    /\ \E v \in VoiceIds :
        /\ PAt("fetch", v) > 0
        /\ \/ /\ previews' = PLeave("fetch", v)     \* !response.ok: nothing to do
              /\ PreviewFinally
           \/ \E arm \in ResponseArms :
                /\ previews' = PMove("fetch", IF arm = "json" THEN "json" ELSE "blob", v)
                /\ UNCHANGED previewingVoice
    /\ UNCHANGED <<voice, renderedSelector, playing>>
    /\ UNCHANGED <<pageVars, decoderVars>>

\* `await response.json()` of the preview settles.  A message that is
\* neither a data URI nor a URL returns; a throw goes through catch.
PreviewJsonSettled ==
    /\ \E v \in VoiceIds :
        /\ PAt("json", v) > 0
        /\ \/ /\ previews' = PLeave("json", v)
              /\ PreviewFinally
           \/ \E kind \in JsonOutcomes :
                CASE kind = "throw" -> previews' = PLeave("json", v) /\ PreviewFinally
                  [] kind = "blob" ->
                        previews' = PMove("json", "play", v) /\ UNCHANGED previewingVoice
                  [] kind = "fetch" ->
                        previews' = PMove("json", "audioFetch", v) /\ UNCHANGED previewingVoice
    /\ UNCHANGED <<voice, renderedSelector, playing>>
    /\ UNCHANGED <<pageVars, decoderVars>>

\* `await fetch(message)` of the preview settles; audioResponse.ok is not read.
PreviewAudioFetchSettled ==
    /\ \E v \in VoiceIds :
        /\ PAt("audioFetch", v) > 0
        /\ \/ /\ previews' = PLeave("audioFetch", v)
              /\ PreviewFinally
           \/ /\ previews' = PMove("audioFetch", "blobUrl", v)
              /\ UNCHANGED previewingVoice
    /\ UNCHANGED <<voice, renderedSelector, playing>>
    /\ UNCHANGED <<pageVars, decoderVars>>

\* `await audioResponse.blob()` / `await response.blob()` of the preview
\* settles; then createObjectURL, new Audio and `await audio.play()`.
PreviewBlobSettled ==
    /\ \E v \in VoiceIds, st \in {"blobUrl", "blob"} :
        /\ PAt(st, v) > 0
        /\ \/ /\ previews' = PLeave(st, v)
              /\ PreviewFinally
           \/ /\ previews' = PMove(st, "play", v)
              /\ UNCHANGED previewingVoice
    /\ UNCHANGED <<voice, renderedSelector, playing>>
    /\ UNCHANGED <<pageVars, decoderVars>>

\* `await audio.play()` settles: it resolves when playback has begun, and
\* rejects when the payload cannot be played.
PlaySettled ==
    /\ \E v \in VoiceIds :
        /\ PAt("play", v) > 0
        /\ previews' = PLeave("play", v)
        /\ \/ playing' = playing (+) SetToBag({v})
           \/ UNCHANGED playing
    /\ PreviewFinally
    /\ UNCHANGED <<voice, renderedSelector>>
    /\ UNCHANGED <<pageVars, decoderVars>>

\* The 'ended' listener: URL.revokeObjectURL(audioUrl).
AudioEnded ==
    /\ \E v \in VoiceIds :
        /\ CopiesIn(v, playing) > 0
        /\ playing' = playing (-) SetToBag({v})
    /\ UNCHANGED <<voice, previewingVoice, renderedSelector, previews>>
    /\ UNCHANGED <<pageVars, decoderVars>>

(***************************************************************************)
(* The decoder of generateVoice run on one response whose status is OK:    *)
(* the same operators as the page's continuations, with the response kept. *)
(***************************************************************************)
DecoderContentTypes == ContentTypes \cup {ContentType("application/json; charset=utf-8")}

Responses ==
    [contentType : DecoderContentTypes, json : JsonBodies, audioOk : BOOLEAN,
     audioBody : Bodies, body : Bodies]

NoOutcome == [kind |-> "none", error |-> "", bytes |-> <<>>, url |-> ""]

DecoderIdle == decoding = [at |-> "idle"]

DecoderInit ==
    \E r \in Responses : decoding = [at |-> "response", response |-> r, out |-> NoOutcome]

\* const contentType = response.headers.get("content-type") and the dispatch
DecodeDispatch ==
    /\ decoding.at = "response"
    /\ LET arm == ContentTypeArm(decoding.response.contentType)
       IN  decoding' = [decoding EXCEPT !.at = CASE arm = "json" -> "json"
                                                  [] arm = "audio" -> "blobAudio"
                                                  [] OTHER -> "blobOther"]
    /\ UNCHANGED <<pageVars, selectorVars>>

DecodeJson ==
    /\ decoding.at = "json"
    /\ LET out == MessageStep(decoding.response.json)
       IN  decoding' = IF out.kind = "fetch"
                       THEN [decoding EXCEPT !.at = "audioFetch", !.out = out]
                       ELSE [decoding EXCEPT !.at = "done", !.out = out]
    /\ UNCHANGED <<pageVars, selectorVars>>

DecodeAudioFetch ==
    /\ decoding.at = "audioFetch"
    /\ decoding' = IF AudioFetchStep(decoding.response.audioOk) = "blob"
                   THEN [decoding EXCEPT !.at = "blobUrl"]
                   ELSE [decoding EXCEPT !.at = "done",
                                         !.out = Throws("Failed to fetch audio from URL")]
    /\ UNCHANGED <<pageVars, selectorVars>>

DecodeBlob ==
    /\ decoding.at \in {"blobUrl", "blobAudio", "blobOther"}
    /\ LET arm == CASE decoding.at = "blobUrl" -> "url"
                     [] decoding.at = "blobAudio" -> "audio"
                     [] OTHER -> "other"
           body == IF arm = "url" THEN decoding.response.audioBody
                   ELSE decoding.response.body
       IN  decoding' = [decoding EXCEPT !.at = "done", !.out = BlobStep(arm, body)]
    /\ UNCHANGED <<pageVars, selectorVars>>

(***************************************************************************)
(* Specifications.                                                         *)
(***************************************************************************)
Init == PageInit /\ SelectorInit /\ DecoderIdle


\* The generation pipeline of the page.
Next ==
    \/ Render
    \/ SetText
    \/ GenerateVoice
    \/ Tick
    \/ FetchRejected
    \/ FetchResolved
    \/ JsonSettled
    \/ AudioFetchSettled
    \/ BlobSettled
    \/ MetadataLoaded
    \/ SelectHistory

Spec == Init /\ [][Next]_vars

\* The history under every interleaving of generations and selections.  The
\* progress interval writes generationProgress alone, which no handler reads,
\* so its firings are left out here and the run goes deep instead.
NextHistory ==
    \/ Render
    \/ SetText
    \/ GenerateVoice
    \/ FetchRejected
    \/ FetchResolved
    \/ JsonSettled
    \/ AudioFetchSettled
    \/ BlobSettled
    \/ MetadataLoadedDeep
    \/ SelectHistory

SpecHistory == Init /\ [][NextHistory]_vars

\* The generation pipeline under fair scheduling.  The event loop runs every
\* continuation whose promise has settled and React re-renders after a state
\* change; the provider call, the indirect fetch and the body reads settle;
\* the audio element fires loadedmetadata unless it fires error.  The user's
\* actions (typing, triggering, selecting) carry no fairness.
NextLive ==
    \/ Render
    \/ SetText
    \/ GenerateVoiceWithinBound
    \/ FetchRejected
    \/ FetchResolved
    \/ JsonSettled
    \/ AudioFetchSettled
    \/ BlobSettled
    \/ MetadataLoaded
    \/ MediaError
    \/ SelectHistory

Fairness ==
    /\ WF_vars(Render)
    /\ WF_vars(FetchResolved)
    /\ WF_vars(JsonSettled)
    /\ WF_vars(AudioFetchSettled)
    /\ WF_vars(BlobSettled)
    /\ WF_vars(MetadataLoaded)

SpecLive == Init /\ [][NextLive]_vars /\ Fairness

\* The voice selector and its previews.
NextPreview ==
    \/ SelectVoice
    \/ RenderSelector
    \/ PreviewVoice
    \/ PreviewFetchRejected
    \/ PreviewFetchResolved
    \/ PreviewJsonSettled
    \/ PreviewAudioFetchSettled
    \/ PreviewBlobSettled
    \/ PlaySettled
    \/ AudioEnded

SpecPreview == Init /\ [][NextPreview]_vars

\* The decoder on every response of Responses.
InitDecoder == PageInit /\ SelectorInit /\ DecoderInit

NextDecoder ==
    \/ DecodeDispatch
    \/ DecodeJson
    \/ DecodeAudioFetch
    \/ DecodeBlob

SpecDecoder == InitDecoder /\ [][NextDecoder]_vars


(***************************************************************************)
(* Properties.                                                             *)
(***************************************************************************)

\* C1 (generation single-flight): a generate trigger that arrives while an
\* earlier generateVoice invocation has not completed issues no provider
\* fetch, so at most one generation is in flight at any time.
C1_SingleFlight == InFlight <= 1

\* C2 (history bound and order): the history never holds more than 10
\* entries, and it is exactly the most recent successful generations, newest
\* first: each success goes to index 0, the earlier entries keep their order
\* and only the oldest is dropped; so after 11 successes the 1st is gone and
\* the 11th is at the front.
C2_HistoryBoundAndOrder ==
    /\ Len(audioHistory) <= 10
    /\ Len(audioHistory) = Min(created, 10)
    /\ \A i \in 1..Len(audioHistory) : audioHistory[i] = GeneratedAudio(created + 1 - i)

C2_Witness ==
    /\ created = 11
    /\ Len(audioHistory) = 10
    /\ audioHistory[1] = GeneratedAudio(11)
    /\ \A i \in 1..Len(audioHistory) : audioHistory[i] # GeneratedAudio(1)

\* C3 (progress bound): while generations are in flight and none of them has
\* received the provider response, generationProgress is at most 90.
C3_ProgressBound ==
    (InFlight > 0 /\ At("fetch") = InFlight) => generationProgress <= 90

\* C4 (guaranteed cleanup): whenever a generateVoice invocation exits, by
\* success or by any failure, isGenerating is false and generationProgress
\* is 0 in the resulting state.
C4_Cleanup ==
    [][InFlight' < InFlight => (isGenerating' = FALSE /\ generationProgress' = 0)]_vars

C4_Witness ==
    /\ InFlight = 0
    /\ leakedIntervals > 0
    /\ created > 0
    /\ isGenerating = FALSE
    /\ generationProgress = 0
    /\ rendered.isGenerating

\* C5 (no partial results): a step of a generateVoice invocation other than
\* its resumption from loadedmetadata, and so every exit by failure, leaves
\* audioHistory and currentAudio as they were and creates no GeneratedAudio.
C5_NoPartialResults ==
    [][(suspended' # suspended /\ CopiesIn("metadata", suspended') >= At("metadata"))
          => UNCHANGED <<audioHistory, currentAudio, created, objectUrls>>]_vars

C5_Witness ==
    /\ InFlight = 0
    /\ leakedIntervals > 0
    /\ Len(audioHistory) > 0
    /\ currentAudio # NoAudio
    /\ rendered.isGenerating

\* The decoder's table, written out over the inputs of Responses: the class
\* of each content type, envelope and content string, and the bytes each data
\* URI stands for.  A data URI without a base64 segment is not in the table.
C6_JsonTypes == {ContentType("application/json"), ContentType("application/json; charset=utf-8")}
C6_AudioTypes == {ContentType("audio/mpeg")}
C6_HasMessage(j) == j \in {Envelope(Message(c)) : c \in Contents} \cup {Envelope(NonStringMessage)}
C6_IsString(j) == j \in {Envelope(Message(c)) : c \in Contents}
C6_DataUris == {"data:audio/mpeg;base64,AAAA", "data:audio/mpeg;base64,TWE="}
C6_Urls == {"https://x/y.mp3", "http://x/y.mp3"}
C6_Malformed == {"data:audio"}
C6_Base64Decoded(c) == IF c = "data:audio/mpeg;base64,AAAA" THEN <<0, 0, 0>> ELSE <<77, 97>>
C6_Fail == [fails |-> TRUE, bytes |-> <<>>]
C6_Yield(b) == [fails |-> FALSE, bytes |-> b]

C6_Table(r) ==
    IF r.contentType \in C6_JsonTypes
    THEN IF ~C6_HasMessage(r.json) THEN C6_Fail
         ELSE IF C6_IsString(r.json) /\ r.json.choices[1].content \in C6_DataUris
         THEN C6_Yield(C6_Base64Decoded(r.json.choices[1].content))
         ELSE IF C6_IsString(r.json) /\ r.json.choices[1].content \in C6_Urls
         THEN IF r.audioOk THEN C6_Yield(r.audioBody) ELSE C6_Fail
         ELSE C6_Fail
    ELSE IF r.contentType \in C6_AudioTypes THEN C6_Yield(r.body)
    ELSE IF r.body = <<>> THEN C6_Fail
    ELSE C6_Yield(r.body)

C6_InTable(r) ==
    ~(r.contentType \in C6_JsonTypes /\ C6_IsString(r.json)
        /\ r.json.choices[1].content \in C6_Malformed)

C7_MarkerWhilePlaying ==
    \A v \in VoiceIds : CopiesIn(v, playing) > 0 => previewingVoice = v

\* C8 (preview process-wide single-flight): at most one preview provider
\* call is in flight.  Stated for the case the claim names, a preview of
\* another voice triggered while an earlier call is unresolved: no two calls
\* for different voices are in flight together.
C8_OnePreviewCall ==
    \A v, w \in VoiceIds :
        (PAt("fetch", v) > 0 /\ PAt("fetch", w) > 0) => v = w

\* C9 (eviction releases the audio resource): every object URL that a
\* generation committed and that has not been released is referenced by an
\* entry of audioHistory or by currentAudio.
C9_EvictedUrlReleased ==
    \A u \in objectUrls :
        \/ \E i \in 1..Len(audioHistory) : audioHistory[i].audioUrl = u
        \/ currentAudio.audioUrl = u

\* C10 (progress timer teardown): once no generation is in flight no tick
\* fires any more, so generationProgress is 0 whenever no generation is in
\* flight.
C10_ProgressZeroWhenIdle == InFlight = 0 => generationProgress = 0

\* The awaits of the decoder that can resume with a payload.
C11_PayloadStages == {"json", "blobUrl", "blobAudio", "blobOther"}

\* A step that commits a GeneratedAudio.
C11_Commits ==
    \/ created' # created
    \/ audioHistory' # audioHistory
    \/ (currentAudio' # currentAudio /\ suspended' # suspended)

\* C11 (completion gating): a GeneratedAudio is committed only by the step
\* that resumes an invocation from loadedmetadata; an invocation waits for
\* loadedmetadata only after the decoder produced a payload, and the decoder
\* runs only on a provider response that arrived with OK status.  The
\* progress value neither blocks the commit (it is enabled at every value
\* once an invocation waits for loadedmetadata) nor causes it (a step that
\* resumes no invocation, a tick among them, commits nothing).
C11_CompletionGating ==
    /\ [](At("metadata") > 0 /\ created < MaxGenerations => ENABLED MetadataLoaded)
    /\ [][C11_Commits =>
            /\ At("metadata") > 0
            /\ suspended' = Leave("metadata")
            /\ currentAudio' = GeneratedAudio(created')
            /\ audioHistory'[1] = currentAudio']_vars
    /\ [][CopiesIn("metadata", suspended') > At("metadata") =>
            \E from \in C11_PayloadStages :
                At(from) > 0 /\ suspended' = Move(from, "metadata")]_vars
    /\ [][(\E s \in C11_PayloadStages \cup {"audioFetch"} : CopiesIn(s, suspended') > At(s)) =>
            \/ At("fetch") > 0 /\ CopiesIn("fetch", suspended') < At("fetch")
                               /\ generationProgress' = ProgressDone
            \/ At("json") > 0 /\ suspended' = Move("json", "audioFetch")
            \/ At("audioFetch") > 0 /\ suspended' = Move("audioFetch", "blobUrl")]_vars

\* A generation has committed while another invocation waits for
\* loadedmetadata with the progress value back at 0.
C11_Witness ==
    /\ created > 0
    /\ currentAudio = GeneratedAudio(created)
    /\ At("metadata") > 0
    /\ generationProgress = 0
    /\ ENABLED MetadataLoaded

\* C12 (current-audio membership): after any sequence of successful
\* generations, failed generations and history selections, currentAudio is
\* none or one of the entries now in audioHistory; so a capacity eviction
\* never removes the current entry.
C12_Membership ==
    \/ currentAudio = NoAudio
    \/ \E i \in 1..Len(audioHistory) : audioHistory[i] = currentAudio

\* C12, the particular case: right after a successful generation
\* currentAudio is the entry at index 0.
C12_HeadAfterSuccess ==
    created' # created => (Len(audioHistory') > 0 /\ currentAudio' = audioHistory'[1])

\* C12: both parts.
C12_CurrentInHistory == []C12_Membership /\ [][C12_HeadAfterSuccess]_vars

\* The history has evicted its oldest entry and the oldest entry left, not
\* the newest, has been selected as current.
C12_Witness ==
    /\ created > HistoryKeep + 1
    /\ Len(audioHistory) = HistoryKeep + 1
    /\ currentAudio = audioHistory[HistoryKeep + 1]
    /\ currentAudio # GeneratedAudio(created)

\* C13 (generation eventually ends): under fair scheduling, with the
\* provider call, the indirect fetch and the body reads all settling, a
\* generation in flight eventually exits and isGenerating returns to false,
\* whatever the decoded payload, also when the audio element never signals
\* loadedmetadata.
C13_GenerationEnds == (InFlight > 0) ~> (isGenerating = FALSE)

=============================================================================
